---- MODULE Spec2Model ----
(***************************************************************************)
(* Model of apple-spotify-sync: the WebSocket relay (server/src/           *)
(* websocket.ts) and the extension's background script (the second half of *)
(* extension/src/popup.ts): connection supervisor and listener-side        *)
(* drift-correction synchronizer.                                          *)
(*                                                                         *)
(* The specifications share one Init:                                       *)
(*   SpecRelay     the relay's registry and routing, clock standing still  *)
(*   SpecRegistry  its registry alone: join, error and close               *)
(*   SpecLive      the relay with its clock, liveness sweep and every      *)
(*                 message kind, for two connections and one session       *)
(*   SpecEvict     SpecLive with the close event of terminate() guaranteed *)
(*   SpecSup       the connection supervisor of one extension instance     *)
(*   SpecSync      handleHostStateUpdate over a stream of snapshots        *)
(*   SpecFollower  a listener instance: supervisor and synchronizer        *)
(*   SpecSink      the synchronizer and its requests to the backend        *)
(*   SpecSource    an instance started from rest, detecting snapshots      *)
(*   SpecIntake    the relay fed with the snapshots of extractPlaybackState *)
(*   SpecSession   the relay's session s1 with up to three members and the *)
(*                 stream of writes of each socket                         *)
(*   SpecSteady    the synchronizer fed by a host that plays one track     *)
(*   SpecBeat      one connection whose client sends its heartbeat, and    *)
(*                 the relay's liveness sweep                              *)
(*   SpecRecover   an instance started from rest whose connection drops,   *)
(*                 with fair timers, awaits and transports                 *)
(***************************************************************************)
EXTENDS Integers, Sequences, FiniteSets, TLC

(***************************************************************************)
(* Bounds of the model.                                                    *)
(***************************************************************************)
MaxMembers == 2
MaxTicks == 3
MaxTimers == 2
MaxPending == 1
MaxSyncSteps == 16
MaxInFlight == 2
MaxUpdates == 2
MaxSessionMembers == 3
MaxSteadySec == 8
MaxBeatTicks == 15

(***************************************************************************)
(* Program constants of the relay.                                         *)
(***************************************************************************)
HEARTBEAT_TIMEOUT_MS == 60000
HEARTBEAT_CHECK_INTERVAL_MS == 30000

(***************************************************************************)
(* Program constants of the extension's background script.                 *)
(***************************************************************************)
MAX_RECONNECT_ATTEMPTS == 10
INITIAL_RECONNECT_DELAY == 1000
HEARTBEAT_INTERVAL_MS == 30000
SYNC_THROTTLE_MS == 200
SEEK_THROTTLE_MS == 1000
DRIFT_THRESHOLD_MS == 3750

\* Granularity of the relay's clock: Date.now() is sampled once per sweep interval.
RelayTickMs == HEARTBEAT_CHECK_INTERVAL_MS

VARIABLES
    \* ---- relay (websocket.ts) ----
    sessions,        \* Map<string, Set<ClientMeta>>: key -> members in insertion order
    lastHeartbeat,   \* Map<WebSocket, number>
    clientMeta,      \* per connection: the closure variable clientMeta
    connState,       \* per connection slot: idle (no socket) | open | closing |
                     \* terminated (destroyed by terminate(), close event pending) | closed
    relayNow,        \* Date.now() of the relay process
    lastSweep,       \* time of the last checkHeartbeats run (setInterval phase)
    sent,            \* what the last relay step wrote: sequence of [to, msg]
    last,            \* the last relay step: [op, conn, sessionId, role, payload, leave]
    \* ---- connection supervisor (popup.ts, background script) ----
    ws,                    \* let ws: the current transport, 0 for null
    tState,                \* per transport: none | connecting | open | closing
    reconnectAttempts,
    shouldAutoReconnect,
    reconnectTimeoutId,    \* 0 for null
    heartbeatIntervalId,   \* 0 for null
    timers,                \* outstanding setTimeout timers: id -> delay
    heartbeats,            \* outstanding setInterval timers
    pendingConnects,       \* connectWebSocket calls suspended at their await
    role,                  \* let role, "" for null
    supSent,               \* what the last supervisor step wrote: sequence of [on, msg]
    supLast,               \* the last supervisor step: [op, t, payload]
    \* ---- listener sync state (popup.ts, background script) ----
    lastAppliedTrackId,          \* "" for null
    lastAppliedPositionMs,
    lastAppliedHostTimestampMs,
    lastSyncCallTime,
    lastSeekTime,
    syncNow,               \* Date.now() of the extension
    hostStateIn,           \* the snapshot handleHostStateUpdate was last called with
    syncAction,            \* the sink call of that evaluation: [kind, positionMs]
    syncPrev,              \* the call before it: [hostState, action]
    \* ---- backend requests of the listener (popup.ts, background script) ----
    sinkInFlight,          \* fetch calls awaiting their response: sequence of [kind, positionMs]
    sinkLast,              \* the last response handled: [call, outcome, at]
    \* ---- the relay's outgoing streams (websocket.ts) ----
    arrivals,              \* number of STATE_UPDATE messages the relay has handled
    wire,                  \* per connection: the STATE_UPDATE writes of socket.send, in order
    \* ---- the heartbeat of one client towards the relay ----
    nextPingAt,            \* when the client's setInterval callback runs next, 0 for no timer
    pingsInFlight          \* send times of the PINGs not yet received by the relay

relayVars == <<sessions, lastHeartbeat, clientMeta, connState, relayNow, lastSweep,
               sent, last>>

supVars == <<ws, tState, reconnectAttempts, shouldAutoReconnect, reconnectTimeoutId,
             heartbeatIntervalId, timers, heartbeats, pendingConnects, role,
             supSent, supLast>>

syncVars == <<lastAppliedTrackId, lastAppliedPositionMs, lastAppliedHostTimestampMs,
              lastSyncCallTime, lastSeekTime, syncNow, hostStateIn, syncAction,
              syncPrev>>

sinkVars == <<sinkInFlight, sinkLast>>

wireVars == <<arrivals, wire>>

beatVars == <<nextPingAt, pingsInFlight>>

vars == <<relayVars, supVars, syncVars, sinkVars, wireVars, beatVars>>

(***************************************************************************)
(* JavaScript values as they appear in a parsed JSON payload.              *)
(***************************************************************************)
JsNull == [t |-> "null", s |-> "", n |-> 0]
JsUndefined == [t |-> "undefined", s |-> "", n |-> 0]
JsStr(x) == [t |-> "string", s |-> x, n |-> 0]
JsNum(k) == [t |-> "number", s |-> "", n |-> k]

\* typeof x === "string" / "number", x === null
IsStr(x) == x.t = "string"
IsNum(x) == x.t = "number"
IsNull(x) == x.t = "null"

Payload(kind, trackId, title, artist, album, dur, pos, pstate, ts) ==
    [t |-> kind, trackId |-> trackId, title |-> title, artist |-> artist,
     album |-> album, durationSec |-> dur, positionSec |-> pos,
     playbackState |-> pstate, hostTimestampMs |-> ts]

\* Payloads a client may put in a STATE_UPDATE.
PayloadPlaying ==
    Payload("object", JsStr("t1"), JsStr("Song"), JsStr("Artist"), JsStr("Album"),
            JsNum(200), JsNum(5), JsStr("playing"), JsNum(1000))
PayloadNothing ==
    Payload("object", JsNull, JsNull, JsNull, JsNull, JsNull, JsNum(0),
            JsStr("stopped"), JsNum(1000))
PayloadBadPosition ==
    Payload("object", JsStr("t1"), JsStr("Song"), JsStr("Artist"), JsStr("Album"),
            JsNum(200), JsStr("5"), JsStr("playing"), JsNum(1000))
PayloadNull ==
    Payload("null", JsUndefined, JsUndefined, JsUndefined, JsUndefined, JsUndefined,
            JsUndefined, JsUndefined, JsUndefined)

RelayPayloads == {PayloadPlaying, PayloadNothing, PayloadBadPosition}

isValidPlaybackStateAny(state) == TRUE

isValidPlaybackState(state) ==
    /\ state.t = "object"
    /\ (IsNull(state.trackId) \/ IsStr(state.trackId))
    /\ (IsNull(state.title) \/ IsStr(state.title))
    /\ (IsNull(state.artist) \/ IsStr(state.artist))
    /\ (IsNull(state.album) \/ IsStr(state.album))
    /\ (IsNull(state.durationSec) \/ IsNum(state.durationSec))
    /\ IsNum(state.positionSec)
    /\ state.playbackState \in {JsStr("playing"), JsStr("paused"), JsStr("stopped")}
    /\ IsNum(state.hostTimestampMs)

(***************************************************************************)
(* Relay: values.                                                          *)
(***************************************************************************)
Conns == {1, 2, 3}
SessionIds == {"s1", "s2"}
\* The (sessionId, role) pairs of the JOIN messages clients send; "" stands for a
\* missing or empty (falsy) field, "dj" for a role that is neither host nor listener.
JoinInputs == (SessionIds \X {"host", "listener"}) \cup {<<"s1", "dj">>}
\* The (sessionId, payload) pairs of the STATE_UPDATE messages clients send.
UpdateInputs == SessionIds \X {PayloadPlaying}

\* ClientMeta objects; id is the object's identity (two JOINs with equal fields
\* create two distinct objects).
NoMeta == [id |-> 0, socket |-> 0, sessionId |-> "", role |-> ""]
ClientMeta(id, socket, sessionId, r) ==
    [id |-> id, socket |-> socket, sessionId |-> sessionId, role |-> r]

ErrorMsg(text) == [type |-> "ERROR", message |-> text]
JoinedMsg(sessionId, r) == [type |-> "JOINED", sessionId |-> sessionId, role |-> r]
PongMsg == [type |-> "PONG"]
StateUpdateMsg(sessionId, payload) ==
    [type |-> "STATE_UPDATE", sessionId |-> sessionId, payload |-> payload]

Send(socket, msg) == <<[to |-> socket, msg |-> msg]>>

Range(seq) == {seq[i] : i \in 1..Len(seq)}

\* Every ClientMeta object still referenced by the registry or by a closure.
LiveMetas ==
    (UNION {Range(sessions[k]) : k \in DOMAIN sessions}
        \cup {clientMeta[c] : c \in Conns}) \ {NoMeta}

\* Identity of a ClientMeta object newly allocated for a socket: objects of
\* different sockets differ by their socket, those of one socket by id.
FreshMetaId(socket) ==
    CHOOSE i \in 1..(MaxMembers + 3) : \A m \in LiveMetas : m.socket = socket => m.id # i

RegisteredMetas == UNION {Range(sessions[k]) : k \in DOMAIN sessions}

\* leave tells what the step's call of removeClient met: "none" (no call),
\* "removed" (the member was in the registry) or "absent" (it was not).
Step(op, c, sessionId, r, payload) ==
    [op |-> op, conn |-> c, sessionId |-> sessionId, role |-> r, payload |-> payload,
     leave |-> "none"]

RelayInit ==
    /\ sessions = [k \in {} |-> << >>]
    /\ lastHeartbeat = [c \in {} |-> 0]
    /\ clientMeta = [c \in Conns |-> NoMeta]
    /\ connState = [c \in Conns |-> "idle"]
    /\ relayNow = 0
    /\ lastSweep = 0
    /\ sent = << >>
    /\ last = Step("init", 0, "", "", PayloadNull)

(***************************************************************************)
(* Relay: helpers of the handlers.                                         *)
(***************************************************************************)
MapSet(m, k, v) == [x \in DOMAIN m \cup {k} |-> IF x = k THEN v ELSE m[x]]
MapDelete(m, k) == [x \in DOMAIN m \ {k} |-> m[x]]

Min(S) == CHOOSE x \in S : \A y \in S : x <= y

\* handleStateUpdate's loop "for (const client of session) if (client.socket === ws)":
\* the first member of the session with that socket, or null.
FindSender(session, socket) ==
    LET idx == {i \in 1..Len(session) : session[i].socket = socket}
    IN IF idx = {} THEN NoMeta ELSE session[Min(idx)]

\* "Only hosts can send state updates": sender.role !== "host" is refused.
MayUpdateAnyRole(sender) == TRUE

MayUpdate(sender) == sender.role = "host"

\* client.role === "listener" && client.socket.readyState === WebSocket.OPEN
IsBroadcastTargetAnyState(client) == client.role = "listener"

IsBroadcastTarget(client) ==
    client.role = "listener" /\ connState[client.socket] = "open"

\* The sends of the broadcast loop, in the session's iteration order.
Broadcast(session, msg) ==
    LET targets == SelectSeq(session, IsBroadcastTarget)
    IN [i \in 1..Len(targets) |-> [to |-> targets[i].socket, msg |-> msg]]

\* removeClient: the registry after the call.
removeClientKeepEmpty(reg, meta) ==
    IF meta.sessionId \in DOMAIN reg
    THEN MapSet(reg, meta.sessionId, SelectSeq(reg[meta.sessionId], LAMBDA m : m # meta))
    ELSE reg

removeClientOrFirst(reg, meta) ==
    IF meta.sessionId \in DOMAIN reg
    THEN LET old == reg[meta.sessionId]
             session == IF meta \in Range(old)
                        THEN SelectSeq(old, LAMBDA m : m # meta) ELSE Tail(old)
         IN IF Len(session) = 0
            THEN MapDelete(reg, meta.sessionId)
            ELSE MapSet(reg, meta.sessionId, session)
    ELSE reg

removeClient(reg, meta) ==
    IF meta.sessionId \in DOMAIN reg
    THEN LET session == SelectSeq(reg[meta.sessionId], LAMBDA m : m # meta)
         IN IF Len(session) = 0
            THEN MapDelete(reg, meta.sessionId)
            ELSE MapSet(reg, meta.sessionId, session)
    ELSE reg

\* message.role !== "host" && message.role !== "listener" is refused.
IsRecognizedRoleAny(r) == TRUE

IsRecognizedRole(r) == r = "host" \/ r = "listener"

\* now - lastTime > HEARTBEAT_TIMEOUT_MS
IsStaleInclusive(now, lastTime) == now - lastTime >= HEARTBEAT_TIMEOUT_MS

IsStaleAfterInterval(now, lastTime) == now - lastTime > HEARTBEAT_CHECK_INTERVAL_MS

IsStale(now, lastTime) == now - lastTime > HEARTBEAT_TIMEOUT_MS

(***************************************************************************)
(* Relay: the handlers.                                                    *)
(***************************************************************************)
\* wss.on("connection"): a new WebSocket object takes the first free slot.
Connection(c) ==
    /\ connState[c] = "idle"
    /\ \A d \in Conns : d < c => connState[d] # "idle"
    /\ connState' = [connState EXCEPT ![c] = "open"]
    /\ lastHeartbeat' = MapSet(lastHeartbeat, c, relayNow)
    /\ sent' = << >>
    /\ last' = Step("connection", c, "", "", PayloadNull)
    /\ UNCHANGED <<sessions, clientMeta, relayNow, lastSweep>>

\* message.type === "JOIN": handleJoin and the onJoin callback, with the
\* registry bounded to cap members.
HandleJoinUpTo(cap, c, sessionId, r) ==
    /\ connState[c] = "open"
    /\ last' = Step("JOIN", c, sessionId, r, PayloadNull)
    /\ IF sessionId = "" \/ r = ""
       THEN /\ sent' = Send(c, ErrorMsg("Invalid JOIN message: missing sessionId or role"))
            /\ UNCHANGED <<sessions, clientMeta>>
       ELSE IF ~IsRecognizedRole(r)
       THEN /\ sent' = Send(c, ErrorMsg("Invalid role: must be 'host' or 'listener'"))
            /\ UNCHANGED <<sessions, clientMeta>>
       ELSE LET meta == ClientMeta(FreshMetaId(c), c, sessionId, r)
                session == IF sessionId \in DOMAIN sessions
                           THEN sessions[sessionId] ELSE << >>
            IN /\ Cardinality(RegisteredMetas) < cap
               /\ sessions' = MapSet(sessions, sessionId, Append(session, meta))
               /\ sent' = Send(c, JoinedMsg(sessionId, r))
               /\ clientMeta' = [clientMeta EXCEPT ![c] = meta]
    /\ UNCHANGED <<lastHeartbeat, connState, relayNow, lastSweep>>

HandleJoin(c, sessionId, r) == HandleJoinUpTo(MaxMembers, c, sessionId, r)

\* message.type === "STATE_UPDATE": handleStateUpdate.
HandleStateUpdate(c, sessionId, payload) ==
    /\ connState[c] = "open"
    /\ last' = Step("STATE_UPDATE", c, sessionId, "", payload)
    /\ IF sessionId \notin DOMAIN sessions
       THEN sent' = Send(c, ErrorMsg("Session not found. Send JOIN first."))
       ELSE LET session == sessions[sessionId]
                sender == FindSender(session, c)
            IN IF sender = NoMeta
               THEN sent' = Send(c, ErrorMsg("Client not found in session"))
               ELSE IF ~MayUpdate(sender)
               THEN sent' = Send(c, ErrorMsg("Only hosts can send state updates"))
               ELSE IF ~isValidPlaybackState(payload)
               THEN sent' = Send(c, ErrorMsg("Invalid playback state payload"))
               ELSE sent' = Broadcast(session, StateUpdateMsg(sessionId, payload))
    /\ UNCHANGED <<sessions, lastHeartbeat, clientMeta, connState, relayNow, lastSweep>>

\* message.type === "PING"
HandlePingJoinedOnly(c) ==
    /\ connState[c] = "open"
    /\ last' = Step("PING", c, "", "", PayloadNull)
    /\ IF clientMeta[c] = NoMeta
       THEN /\ sent' = Send(c, ErrorMsg("Send JOIN first."))
            /\ UNCHANGED lastHeartbeat
       ELSE /\ sent' = Send(c, PongMsg)
            /\ lastHeartbeat' = MapSet(lastHeartbeat, c, relayNow)
    /\ UNCHANGED <<sessions, clientMeta, connState, relayNow, lastSweep>>

HandlePing(c) ==
    /\ connState[c] = "open"
    /\ last' = Step("PING", c, "", "", PayloadNull)
    /\ lastHeartbeat' = MapSet(lastHeartbeat, c, relayNow)
    /\ sent' = Send(c, PongMsg)
    /\ UNCHANGED <<sessions, clientMeta, connState, relayNow, lastSweep>>

\* message.type === "PONG"
HandlePong(c) ==
    /\ connState[c] = "open"
    /\ last' = Step("PONG", c, "", "", PayloadNull)
    /\ lastHeartbeat' = MapSet(lastHeartbeat, c, relayNow)
    /\ sent' = << >>
    /\ UNCHANGED <<sessions, clientMeta, connState, relayNow, lastSweep>>

\* Any other message.type: the final else branch.
HandleUnknown(c) ==
    /\ connState[c] = "open"
    /\ last' = Step("UNKNOWN", c, "", "", PayloadNull)
    /\ sent' = Send(c, ErrorMsg("Unknown message type"))
    /\ UNCHANGED <<sessions, lastHeartbeat, clientMeta, connState, relayNow, lastSweep>>

\* JSON.parse throws (or the parsed value has no .type to read): the catch branch.
HandleInvalidJson(c) ==
    /\ connState[c] = "open"
    /\ last' = Step("INVALID", c, "", "", PayloadNull)
    /\ sent' = Send(c, ErrorMsg("Invalid JSON"))
    /\ UNCHANGED <<sessions, lastHeartbeat, clientMeta, connState, relayNow, lastSweep>>

\* The body shared by ws.on("close") and ws.on("error").
DropConnection(c) ==
    /\ lastHeartbeat' = MapDelete(lastHeartbeat, c)
    /\ sessions' = IF clientMeta[c] # NoMeta
                   THEN removeClient(sessions, clientMeta[c]) ELSE sessions

\* What that body's removeClient call meets.
LeaveOutcome(c) ==
    IF clientMeta[c] = NoMeta THEN "none"
    ELSE IF clientMeta[c] \in RegisteredMetas THEN "removed" ELSE "absent"

\* ws.on("error"): the socket fails; its close event follows.
OnError(c) ==
    /\ connState[c] = "open"
    /\ connState' = [connState EXCEPT ![c] = "closing"]
    /\ DropConnection(c)
    /\ sent' = << >>
    /\ last' = [Step("error", c, "", "", PayloadNull) EXCEPT !.leave = LeaveOutcome(c)]
    /\ UNCHANGED <<clientMeta, relayNow, lastSweep>>

\* ws.on("close"). It is the socket's last event: the closure, and with it the
\* variable clientMeta, is unreachable afterwards, and so is the socket unless a
\* member left in the registry still refers to it (then the slot stays "closed").
OnClose(c) ==
    /\ connState[c] \in {"open", "closing", "terminated"}
    /\ DropConnection(c)
    /\ connState' = [connState EXCEPT ![c] =
                        IF \E k \in DOMAIN sessions' : \E m \in Range(sessions'[k]) : m.socket = c
                        THEN "closed" ELSE "idle"]
    /\ clientMeta' = [clientMeta EXCEPT ![c] = NoMeta]
    /\ sent' = << >>
    /\ last' = [Step("close", c, "", "", PayloadNull) EXCEPT !.leave = LeaveOutcome(c)]
    /\ UNCHANGED <<relayNow, lastSweep>>

\* The peer starts the closing handshake: readyState leaves OPEN before the
\* close event is emitted.
PeerClosing(c) ==
    /\ connState[c] = "open"
    /\ connState' = [connState EXCEPT ![c] = "closing"]
    /\ sent' = << >>
    /\ last' = Step("closing", c, "", "", PayloadNull)
    /\ UNCHANGED <<sessions, lastHeartbeat, clientMeta, relayNow, lastSweep>>

\* The setInterval callback: checkHeartbeats. terminate() destroys the socket,
\* which is no longer OPEN; its close event follows.
StaleConnections == {c \in DOMAIN lastHeartbeat : IsStale(relayNow, lastHeartbeat[c])}

CheckHeartbeats ==
    /\ relayNow - lastSweep >= HEARTBEAT_CHECK_INTERVAL_MS
    /\ lastSweep' = relayNow
    /\ lastHeartbeat' = [c \in DOMAIN lastHeartbeat \ StaleConnections |-> lastHeartbeat[c]]
    /\ connState' = [c \in Conns |->
                        IF c \in StaleConnections THEN "terminated" ELSE connState[c]]
    /\ sent' = << >>
    /\ last' = Step("sweep", 0, "", "", PayloadNull)
    /\ UNCHANGED <<sessions, clientMeta, relayNow>>

\* Time passes; a due sweep runs before the clock moves on.
RelayTick ==
    /\ relayNow < MaxTicks * RelayTickMs
    /\ relayNow - lastSweep < HEARTBEAT_CHECK_INTERVAL_MS
    /\ relayNow' = relayNow + RelayTickMs
    /\ sent' = << >>
    /\ last' = Step("tick", 0, "", "", PayloadNull)
    /\ UNCHANGED <<sessions, lastHeartbeat, clientMeta, connState, lastSweep>>

(***************************************************************************)
(* Connection supervisor: values and helpers.                              *)
(***************************************************************************)
Transports == {1, 2}
TimerIds == 1..MaxTimers
HeartbeatIds == 1..2

\* sessionId after loadConfig: result.sessionId || "default-session".
ConfigSessionId == "default-session"
ConfigListenerId == "listener-uuid"

SupStep(op, t) == [op |-> op, t |-> t, payload |-> PayloadNull]

JoinMsg(sessionId, r, listenerId) ==
    [type |-> "JOIN", sessionId |-> sessionId, role |-> r, listenerId |-> listenerId]
PingMsg == [type |-> "PING"]

SendOn(t, msg) == <<[on |-> t, msg |-> msg]>>

SupInit ==
    /\ ws = 0
    /\ tState = [t \in Transports |-> "none"]
    /\ reconnectAttempts = 0
    /\ shouldAutoReconnect = TRUE
    /\ reconnectTimeoutId = 0
    /\ heartbeatIntervalId = 0
    /\ timers = [id \in {} |-> 0]
    /\ heartbeats = {}
    /\ pendingConnects = 0
    /\ role = ""
    /\ supSent = << >>
    /\ supLast = SupStep("init", 0)

RECURSIVE Pow2(_)
\* Math.pow(2, k)
Pow2(k) == IF k = 0 THEN 1 ELSE 2 * Pow2(k - 1)

\* const delay = INITIAL_RECONNECT_DELAY * Math.pow(2, reconnectAttempts)
ReconnectDelayLinear(attempts) == INITIAL_RECONNECT_DELAY * (attempts + 1)

ReconnectDelay(attempts) == INITIAL_RECONNECT_DELAY * Pow2(attempts)

\* shouldAutoReconnect && reconnectAttempts < MAX_RECONNECT_ATTEMPTS
MayReconnectInclusive(enabled, attempts) == enabled /\ attempts <= MAX_RECONNECT_ATTEMPTS

MayReconnectOnce(enabled, attempts) == enabled /\ attempts < 1

MayReconnect(enabled, attempts) == enabled /\ attempts < MAX_RECONNECT_ATTEMPTS

\* ws && ws.readyState === WebSocket.OPEN
WsIsOpen == ws # 0 /\ tState[ws] = "open"

\* The synchronous head of connectWebSocket, up to its await: whether the call
\* goes on to create a transport.
ConnectProceeds == shouldAutoReconnect /\ ~WsIsOpen
ConnectProceedsAfter(enabled) == enabled /\ ~WsIsOpen

FreeTransport == CHOOSE t \in Transports : tState[t] = "none"
FreeTimer == CHOOSE id \in TimerIds : id \notin DOMAIN timers

(***************************************************************************)
(* Connection supervisor: operations.                                      *)
(***************************************************************************)
\* init(): loadConfig sets sessionId and role (and listenerId for a listener).
LoadConfig(r) ==
    /\ role = ""
    /\ role' = r
    /\ supSent' = << >>
    /\ supLast' = SupStep("loadConfig", 0)
    /\ UNCHANGED <<ws, tState, reconnectAttempts, shouldAutoReconnect, reconnectTimeoutId,
                   heartbeatIntervalId, timers, heartbeats, pendingConnects>>

\* startConnection, up to the await inside connectWebSocket.
StartConnection ==
    /\ timers' = IF reconnectTimeoutId # 0 THEN MapDelete(timers, reconnectTimeoutId)
                 ELSE timers
    /\ reconnectTimeoutId' = 0
    /\ shouldAutoReconnect' = TRUE
    /\ reconnectAttempts' = 0
    /\ IF ConnectProceedsAfter(TRUE)
       THEN /\ pendingConnects < MaxPending
            /\ pendingConnects' = pendingConnects + 1
       ELSE UNCHANGED pendingConnects
    /\ supSent' = << >>
    /\ supLast' = SupStep("start", 0)
    /\ UNCHANGED <<ws, tState, heartbeatIntervalId, heartbeats, role>>

\* The setTimeout callback of onclose: clears the id, calls connectWebSocket.
ReconnectTimerFires(id) ==
    /\ id \in DOMAIN timers
    /\ timers' = MapDelete(timers, id)
    /\ reconnectTimeoutId' = 0
    /\ IF ConnectProceeds
       THEN /\ pendingConnects < MaxPending
            /\ pendingConnects' = pendingConnects + 1
       ELSE UNCHANGED pendingConnects
    /\ supSent' = << >>
    /\ supLast' = SupStep("timer", 0)
    /\ UNCHANGED <<ws, tState, reconnectAttempts, shouldAutoReconnect,
                   heartbeatIntervalId, heartbeats, role>>

\* connectWebSocket after its await: ws = new WebSocket(WS_URL) and the handlers.
ConnectResumes ==
    /\ pendingConnects > 0
    /\ \E t \in Transports : tState[t] = "none"
    /\ pendingConnects' = pendingConnects - 1
    /\ tState' = [tState EXCEPT ![FreeTransport] = "connecting"]
    /\ ws' = FreeTransport
    /\ supSent' = << >>
    /\ supLast' = SupStep("connect", FreeTransport)
    /\ UNCHANGED <<reconnectAttempts, shouldAutoReconnect, reconnectTimeoutId,
                   heartbeatIntervalId, timers, heartbeats, role>>

\* ws.onopen of transport t. The handler uses the variable ws, not t: send()
\* on a transport that is still CONNECTING throws and ends the handler, send()
\* on a CLOSING one is discarded.
OnOpen(t) ==
    /\ tState[t] = "connecting"
    /\ tState' = [tState EXCEPT ![t] = "open"]
    /\ reconnectAttempts' = 0
    /\ supLast' = SupStep("onopen", t)
    /\ LET joins == role # "" /\ ws # 0
           throws == joins /\ tState'[ws] = "connecting"
       IN /\ supSent' = IF joins /\ tState'[ws] = "open"
                        THEN SendOn(ws, JoinMsg(ConfigSessionId, role,
                                                IF role = "listener"
                                                THEN ConfigListenerId ELSE ""))
                        ELSE << >>
          /\ IF throws
             THEN UNCHANGED <<heartbeatIntervalId, heartbeats>>
             ELSE /\ heartbeatIntervalId' = CHOOSE h \in HeartbeatIds :
                                               h \notin (heartbeats \ {heartbeatIntervalId})
                  /\ heartbeats' = (heartbeats \ {heartbeatIntervalId})
                                       \cup {heartbeatIntervalId'}
    /\ UNCHANGED <<ws, shouldAutoReconnect, reconnectTimeoutId, timers,
                   pendingConnects, role>>

\* The setInterval callback of onopen.
HeartbeatFires(h) ==
    /\ h \in heartbeats
    /\ supSent' = IF WsIsOpen THEN SendOn(ws, PingMsg) ELSE << >>
    /\ supLast' = SupStep("heartbeat", 0)
    /\ UNCHANGED <<ws, tState, reconnectAttempts, shouldAutoReconnect, reconnectTimeoutId,
                   heartbeatIntervalId, timers, heartbeats, pendingConnects, role>>

\* ws.onerror of transport t: logs only.
OnSocketError(t) ==
    /\ tState[t] \in {"connecting", "open"}
    /\ supSent' = << >>
    /\ supLast' = SupStep("onerror", t)
    /\ UNCHANGED <<ws, tState, reconnectAttempts, shouldAutoReconnect, reconnectTimeoutId,
                   heartbeatIntervalId, timers, heartbeats, pendingConnects, role>>

\* The peer starts the closing handshake of transport t.
TransportClosing(t) ==
    /\ tState[t] = "open"
    /\ tState' = [tState EXCEPT ![t] = "closing"]
    /\ supSent' = << >>
    /\ supLast' = SupStep("closing", t)
    /\ UNCHANGED <<ws, reconnectAttempts, shouldAutoReconnect, reconnectTimeoutId,
                   heartbeatIntervalId, timers, heartbeats, pendingConnects, role>>

\* ws.onclose of transport t (a failed connect, a dropped or a closed connection).
OnSocketClose(t) ==
    /\ tState[t] # "none"
    /\ tState' = [tState EXCEPT ![t] = "none"]
    /\ ws' = 0
    /\ heartbeats' = heartbeats \ {heartbeatIntervalId}
    /\ heartbeatIntervalId' = 0
    /\ IF MayReconnect(shouldAutoReconnect, reconnectAttempts)
       THEN /\ \E id \in TimerIds : id \notin DOMAIN timers
            /\ timers' = MapSet(timers, FreeTimer, ReconnectDelay(reconnectAttempts))
            /\ reconnectAttempts' = reconnectAttempts + 1
            /\ reconnectTimeoutId' = FreeTimer
       ELSE UNCHANGED <<timers, reconnectAttempts, reconnectTimeoutId>>
    /\ supSent' = << >>
    /\ supLast' = SupStep("onclose", t)
    /\ UNCHANGED <<shouldAutoReconnect, pendingConnects, role>>

\* disconnectWebSocket
DisconnectWebSocket ==
    /\ shouldAutoReconnect' = FALSE
    /\ timers' = IF reconnectTimeoutId # 0 THEN MapDelete(timers, reconnectTimeoutId)
                 ELSE timers
    /\ reconnectTimeoutId' = 0
    /\ heartbeats' = heartbeats \ {heartbeatIntervalId}
    /\ heartbeatIntervalId' = 0
    /\ tState' = IF ws # 0 /\ tState[ws] \in {"connecting", "open"}
                 THEN [tState EXCEPT ![ws] = "closing"] ELSE tState
    /\ ws' = 0
    /\ supSent' = << >>
    /\ supLast' = SupStep("stop", 0)
    /\ UNCHANGED <<reconnectAttempts, pendingConnects, role>>

\* role !== "host" || !ws || ws.readyState !== WebSocket.OPEN returns.
MayForwardAnyRole == WsIsOpen

MayForward == role = "host" /\ WsIsOpen

\* handleAppleState(payload): a locally detected snapshot.
HandleAppleState(payload) ==
    /\ supSent' = IF MayForward
                  THEN SendOn(ws, StateUpdateMsg(ConfigSessionId, payload))
                  ELSE << >>
    /\ supLast' = [SupStep("appleState", 0) EXCEPT !.payload = payload]
    /\ UNCHANGED <<ws, tState, reconnectAttempts, shouldAutoReconnect, reconnectTimeoutId,
                   heartbeatIntervalId, timers, heartbeats, pendingConnects, role>>

(***************************************************************************)
(* Listener: drift-correction synchronizer.                                *)
(***************************************************************************)
\* Snapshots as the listener receives them; trackId, title, artist "" for null.
HostState(trackId, pstate, positionSec, hostTimestampMs) ==
    [trackId |-> trackId,
     title |-> IF trackId = "" THEN "" ELSE "Song",
     artist |-> IF trackId = "" THEN "" ELSE "Artist",
     positionSec |-> positionSec,
     playbackState |-> pstate,
     hostTimestampMs |-> hostTimestampMs]

NoHostState == HostState("", "stopped", 0, 0)

\* (trackId, playbackState, positionSec, age of the snapshot at evaluation in ms);
\* a negative age is a host clock ahead of the listener's.
SnapshotInputs ==
    {<<"t1", "playing", 0, 100>>, <<"t2", "playing", 5, 500>>,
     <<"t1", "playing", 50, 0>>, <<"t1", "playing", 55, 0>>,
     <<"t1", "playing", 50, 2000>>, <<"t1", "playing", 100, 2000>>,
     <<"t1", "playing", 0, -1000>>,
     <<"t1", "paused", 50, 0>>, <<"t2", "paused", 5, 100>>,
     <<"t1", "stopped", 50, 0>>, <<"", "stopped", 0, 0>>}

\* Time between two calls of handleHostStateUpdate, in ms.
SyncGaps == {100, 500}

SinkCall(kind, positionMs) == [kind |-> kind, positionMs |-> positionMs]
NoSinkCall == SinkCall("none", 0)

Max0(x) == IF x > 0 THEN x ELSE 0
Abs(x) == IF x < 0 THEN -x ELSE x

\* The request each sink function sends to the backend. listenerId is set for
\* every listener (loadConfig), so its guard never returns; playTrack also
\* returns without a request when the snapshot has no title or no artist.
playTrack(state, positionMs) ==
    IF state.title = "" \/ state.artist = ""
    THEN NoSinkCall
    ELSE SinkCall("playTrack", Max0(positionMs))

pausePlaybackUnlessPaused ==
    IF syncAction.kind = "pause" THEN NoSinkCall ELSE SinkCall("pause", 0)

pausePlayback == SinkCall("pause", 0)

seekToPosition(positionMs) == SinkCall("seek", Max0(positionMs))

\* The clock starts late enough for the zero timestamps of a fresh state to lie
\* outside both throttle windows, as they do for a real Date.now().
SyncInit ==
    /\ lastAppliedTrackId = ""
    /\ lastAppliedPositionMs = 0
    /\ lastAppliedHostTimestampMs = 0
    /\ lastSyncCallTime = 0
    /\ lastSeekTime = 0
    /\ syncNow = SEEK_THROTTLE_MS
    /\ hostStateIn = NoHostState
    /\ syncAction = NoSinkCall
    /\ syncPrev = [hostState |-> NoHostState, action |-> NoSinkCall]

\* now - lastSyncCallTime < SYNC_THROTTLE_MS
ThrottledNever(now, lastCall) == FALSE

ThrottledHalfWindow(now, lastCall) == 2 * (now - lastCall) < SYNC_THROTTLE_MS

Throttled(now, lastCall) == now - lastCall < SYNC_THROTTLE_MS

\* estimatedHostPosMs
EstimateNoExtrapolation(hostState, now) == hostState.positionSec * 1000

EstimatedHostPosMs(hostState, now) ==
    IF hostState.playbackState = "playing"
    THEN hostState.positionSec * 1000 + (now - hostState.hostTimestampMs)
    ELSE hostState.positionSec * 1000

\* !hostState.trackId
NoTrackNever(hostState) == FALSE

NoTrack(hostState) == hostState.trackId = ""

\* hostState.trackId !== lastAppliedTrackId
TrackChangedFirstOnly(trackId, lastApplied) == lastApplied = ""

TrackChanged(trackId, lastApplied) == trackId # lastApplied

\* drift > DRIFT_THRESHOLD_MS && timeSinceLastSeek >= SEEK_THROTTLE_MS
ShouldSeekNoCooldown(drift, timeSinceLastSeek) == drift > DRIFT_THRESHOLD_MS

ShouldSeek(drift, timeSinceLastSeek) ==
    drift > DRIFT_THRESHOLD_MS /\ timeSinceLastSeek >= SEEK_THROTTLE_MS

\* handleHostStateUpdate(hostState), called when Date.now() is now.
HandleHostStateUpdate(hostState, now) ==
    /\ syncNow' = now
    /\ hostStateIn' = hostState
    /\ syncPrev' = [hostState |-> hostStateIn, action |-> syncAction]
    /\ IF role # "listener" \/ Throttled(now, lastSyncCallTime)
       THEN /\ syncAction' = NoSinkCall
            /\ UNCHANGED <<lastAppliedTrackId, lastAppliedPositionMs,
                           lastAppliedHostTimestampMs, lastSyncCallTime, lastSeekTime>>
       ELSE
         /\ lastSyncCallTime' = now
         /\ LET estimatedHostPosMs == EstimatedHostPosMs(hostState, now)
                drift == Abs(lastAppliedPositionMs - estimatedHostPosMs)
                timeSinceLastSeek == now - lastSeekTime
            IN IF NoTrack(hostState)
               THEN /\ syncAction' = NoSinkCall
                    /\ UNCHANGED <<lastAppliedTrackId, lastAppliedPositionMs,
                                   lastAppliedHostTimestampMs, lastSeekTime>>
               ELSE IF TrackChanged(hostState.trackId, lastAppliedTrackId)
               THEN /\ syncAction' = playTrack(hostState, estimatedHostPosMs)
                    /\ lastAppliedTrackId' = hostState.trackId
                    /\ lastAppliedPositionMs' = estimatedHostPosMs
                    /\ lastAppliedHostTimestampMs' = hostState.hostTimestampMs
                    /\ UNCHANGED lastSeekTime
               ELSE IF hostState.playbackState = "paused"
               THEN /\ syncAction' = pausePlayback
                    /\ UNCHANGED <<lastAppliedTrackId, lastAppliedPositionMs,
                                   lastAppliedHostTimestampMs, lastSeekTime>>
               ELSE IF hostState.playbackState = "playing"
                       /\ ShouldSeek(drift, timeSinceLastSeek)
               THEN /\ syncAction' = seekToPosition(estimatedHostPosMs)
                    /\ lastAppliedPositionMs' = estimatedHostPosMs
                    /\ lastAppliedHostTimestampMs' = hostState.hostTimestampMs
                    /\ lastSeekTime' = now
                    /\ UNCHANGED lastAppliedTrackId
               ELSE /\ syncAction' = NoSinkCall
                    /\ UNCHANGED <<lastAppliedTrackId, lastAppliedPositionMs,
                                   lastAppliedHostTimestampMs, lastSeekTime>>

\* A STATE_UPDATE arrives gap ms after the previous one.
ReceiveStateUpdate(in, gap) ==
    /\ syncNow + gap <= SEEK_THROTTLE_MS + MaxSyncSteps * 100
    /\ HandleHostStateUpdate(HostState(in[1], in[2], in[3], syncNow + gap - in[4]),
                             syncNow + gap)

(***************************************************************************)
(* Listener: the backend requests of playTrack, pausePlayback and          *)
(* seekToPosition, which handleHostStateUpdate starts without awaiting.    *)
(***************************************************************************)
\* What the await of fetch yields: the HTTP status of routes.ts (401 no
\* tokens for the listener, 403 Premium required, 404 no active device), or 0
\* when fetch itself throws.
SinkOutcomes == {200, 401, 403, 404, 0}

NoResponse == [call |-> NoSinkCall, outcome |-> 200, at |-> 0]

SinkInit ==
    /\ sinkInFlight = << >>
    /\ sinkLast = NoResponse

RemoveAt(seq, i) == SubSeq(seq, 1, i - 1) \o SubSeq(seq, i + 1, Len(seq))

\* (trackId, playbackState, positionSec, age in ms, has title): the last is
\* FALSE for an item whose title MusicKit does not give (title: null).
SinkSnapshots ==
    {<<"t1", "playing", 50, 0, TRUE>>, <<"t1", "playing", 60, 0, TRUE>>,
     <<"t1", "paused", 50, 0, TRUE>>, <<"t2", "playing", 5, 500, FALSE>>,
     <<"t1", "playing", 0, -1000, TRUE>>}
SinkGaps == {500}

\* A STATE_UPDATE arrives: handleHostStateUpdate runs, and the request it
\* starts, if any, is in flight when it returns.
EvaluateSnapshot(in, gap) ==
    /\ Len(sinkInFlight) < MaxInFlight
    /\ syncNow + gap <= SEEK_THROTTLE_MS + MaxSyncSteps * 100
    /\ LET h == HostState(in[1], in[2], in[3], syncNow + gap - in[4])
       IN HandleHostStateUpdate(IF in[5] THEN h ELSE [h EXCEPT !.title = ""],
                                syncNow + gap)
    /\ sinkInFlight' = IF syncAction' = NoSinkCall
                       THEN sinkInFlight ELSE Append(sinkInFlight, syncAction')
    /\ UNCHANGED sinkLast

\* The rest of playTrack / pausePlayback / seekToPosition after its await:
\* every branch (response.ok, !response.ok, catch) only logs.
SinkRespondsWithRetry(i, outcome) ==
    /\ i \in 1..Len(sinkInFlight)
    /\ sinkInFlight' = IF outcome = 200 THEN RemoveAt(sinkInFlight, i) ELSE sinkInFlight
    /\ sinkLast' = [call |-> sinkInFlight[i], outcome |-> outcome, at |-> syncNow]
    /\ lastAppliedTrackId' = IF outcome = 200 THEN lastAppliedTrackId ELSE ""
    /\ UNCHANGED <<lastAppliedPositionMs, lastAppliedHostTimestampMs, lastSyncCallTime,
                   lastSeekTime, syncNow, hostStateIn, syncAction, syncPrev>>

SinkResponds(i, outcome) ==
    /\ i \in 1..Len(sinkInFlight)
    /\ sinkInFlight' = RemoveAt(sinkInFlight, i)
    /\ sinkLast' = [call |-> sinkInFlight[i], outcome |-> outcome, at |-> syncNow]
    /\ UNCHANGED syncVars

\* The relay's registry and routing: every event of a connection but the
\* heartbeat traffic, with the clock standing still.
RelayNext ==
    \/ \E c \in Conns : Connection(c) /\ UNCHANGED <<supVars, syncVars, sinkVars, wireVars, beatVars>>
    \/ \E c \in Conns, j \in JoinInputs : HandleJoin(c, j[1], j[2]) /\ UNCHANGED <<supVars, syncVars, sinkVars, wireVars, beatVars>>
    \/ \E c \in Conns, u \in UpdateInputs :
          HandleStateUpdate(c, u[1], u[2]) /\ UNCHANGED <<supVars, syncVars, sinkVars, wireVars, beatVars>>
    \/ \E c \in Conns : OnError(c) /\ UNCHANGED <<supVars, syncVars, sinkVars, wireVars, beatVars>>
    \/ \E c \in Conns : OnClose(c) /\ UNCHANGED <<supVars, syncVars, sinkVars, wireVars, beatVars>>
    \/ \E c \in Conns : PeerClosing(c) /\ UNCHANGED <<supVars, syncVars, sinkVars, wireVars, beatVars>>

\* The relay's registry alone: connections join, fail and close.
RegistryNext ==
    \/ \E c \in Conns : Connection(c) /\ UNCHANGED <<supVars, syncVars, sinkVars, wireVars, beatVars>>
    \/ \E c \in Conns, j \in JoinInputs : HandleJoin(c, j[1], j[2]) /\ UNCHANGED <<supVars, syncVars, sinkVars, wireVars, beatVars>>
    \/ \E c \in Conns : OnError(c) /\ UNCHANGED <<supVars, syncVars, sinkVars, wireVars, beatVars>>
    \/ \E c \in Conns : OnClose(c) /\ UNCHANGED <<supVars, syncVars, sinkVars, wireVars, beatVars>>

\* The relay with its clock and liveness sweep, for two connections and one
\* session.
LiveConns == {1, 2}
LiveJoinInputs ==
    {<<"s1", "host">>, <<"s1", "listener">>, <<"", "host">>, <<"s1", "">>, <<"s1", "dj">>}
LiveUpdateInputs == {"s1"} \X RelayPayloads

LiveNext ==
    \/ \E c \in LiveConns : Connection(c) /\ UNCHANGED <<supVars, syncVars, sinkVars, wireVars, beatVars>>
    \/ \E c \in LiveConns, j \in LiveJoinInputs :
          HandleJoin(c, j[1], j[2]) /\ UNCHANGED <<supVars, syncVars, sinkVars, wireVars, beatVars>>
    \/ \E c \in LiveConns, u \in LiveUpdateInputs :
          HandleStateUpdate(c, u[1], u[2]) /\ UNCHANGED <<supVars, syncVars, sinkVars, wireVars, beatVars>>
    \/ \E c \in LiveConns : HandlePing(c) /\ UNCHANGED <<supVars, syncVars, sinkVars, wireVars, beatVars>>
    \/ \E c \in LiveConns : HandlePong(c) /\ UNCHANGED <<supVars, syncVars, sinkVars, wireVars, beatVars>>
    \/ \E c \in LiveConns : HandleUnknown(c) /\ UNCHANGED <<supVars, syncVars, sinkVars, wireVars, beatVars>>
    \/ \E c \in LiveConns : HandleInvalidJson(c) /\ UNCHANGED <<supVars, syncVars, sinkVars, wireVars, beatVars>>
    \/ \E c \in LiveConns : OnError(c) /\ UNCHANGED <<supVars, syncVars, sinkVars, wireVars, beatVars>>
    \/ \E c \in LiveConns : OnClose(c) /\ UNCHANGED <<supVars, syncVars, sinkVars, wireVars, beatVars>>
    \/ \E c \in LiveConns : PeerClosing(c) /\ UNCHANGED <<supVars, syncVars, sinkVars, wireVars, beatVars>>
    \/ CheckHeartbeats /\ UNCHANGED <<supVars, syncVars, sinkVars, wireVars, beatVars>>
    \/ RelayTick /\ UNCHANGED <<supVars, syncVars, sinkVars, wireVars, beatVars>>

\* One extension instance: its connection supervisor, the network and the user.
SupNext ==
    \/ \E r \in {"host", "listener"} : LoadConfig(r) /\ UNCHANGED <<relayVars, syncVars, sinkVars, wireVars, beatVars>>
    \/ StartConnection /\ UNCHANGED <<relayVars, syncVars, sinkVars, wireVars, beatVars>>
    \/ \E id \in TimerIds : ReconnectTimerFires(id) /\ UNCHANGED <<relayVars, syncVars, sinkVars, wireVars, beatVars>>
    \/ ConnectResumes /\ UNCHANGED <<relayVars, syncVars, sinkVars, wireVars, beatVars>>
    \/ \E t \in Transports : OnOpen(t) /\ UNCHANGED <<relayVars, syncVars, sinkVars, wireVars, beatVars>>
    \/ \E h \in HeartbeatIds : HeartbeatFires(h) /\ UNCHANGED <<relayVars, syncVars, sinkVars, wireVars, beatVars>>
    \/ \E t \in Transports : OnSocketError(t) /\ UNCHANGED <<relayVars, syncVars, sinkVars, wireVars, beatVars>>
    \/ \E t \in Transports : TransportClosing(t) /\ UNCHANGED <<relayVars, syncVars, sinkVars, wireVars, beatVars>>
    \/ \E t \in Transports : OnSocketClose(t) /\ UNCHANGED <<relayVars, syncVars, sinkVars, wireVars, beatVars>>
    \/ DisconnectWebSocket /\ UNCHANGED <<relayVars, syncVars, sinkVars, wireVars, beatVars>>
    \/ HandleAppleState(PayloadPlaying) /\ UNCHANGED <<relayVars, syncVars, sinkVars, wireVars, beatVars>>

\* The listener's synchronizer under a stream of snapshots.
SyncNext ==
    \/ \E r \in {"host", "listener"} :
          LoadConfig(r) /\ UNCHANGED <<relayVars, syncVars, sinkVars, wireVars, beatVars>>
    \/ \E in \in SnapshotInputs, gap \in SyncGaps :
          ReceiveStateUpdate(in, gap)
            /\ UNCHANGED <<relayVars, ws, tState, reconnectAttempts, shouldAutoReconnect,
                           reconnectTimeoutId, heartbeatIntervalId, timers, heartbeats,
                           pendingConnects, role, supSent, supLast, sinkVars, wireVars, beatVars>>

\* A listener instance as a whole: the user starts it from rest, its connection
\* comes and goes, and every STATE_UPDATE that arrives on its open transport
\* goes to handleHostStateUpdate.
FollowerSnapshots == {<<"t1", "playing", 50, 0>>, <<"t2", "playing", 5, 500>>}
FollowerGaps == {500}

AtRest ==
    /\ DOMAIN timers = {}
    /\ pendingConnects = 0
    /\ \A t \in Transports : tState[t] = "none"

FollowerNext ==
    \/ LoadConfig("listener") /\ UNCHANGED <<relayVars, syncVars, sinkVars, wireVars, beatVars>>
    \/ role # "" /\ AtRest /\ StartConnection /\ UNCHANGED <<relayVars, syncVars, sinkVars, wireVars, beatVars>>
    \/ \E id \in TimerIds : ReconnectTimerFires(id) /\ UNCHANGED <<relayVars, syncVars, sinkVars, wireVars, beatVars>>
    \/ ConnectResumes /\ UNCHANGED <<relayVars, syncVars, sinkVars, wireVars, beatVars>>
    \/ \E t \in Transports : OnOpen(t) /\ UNCHANGED <<relayVars, syncVars, sinkVars, wireVars, beatVars>>
    \/ \E t \in Transports : OnSocketClose(t) /\ UNCHANGED <<relayVars, syncVars, sinkVars, wireVars, beatVars>>
    \/ DisconnectWebSocket /\ UNCHANGED <<relayVars, syncVars, sinkVars, wireVars, beatVars>>
    \/ \E in \in FollowerSnapshots, gap \in FollowerGaps :
          /\ WsIsOpen
          /\ ReceiveStateUpdate(in, gap)
          /\ UNCHANGED <<relayVars, supVars, sinkVars, wireVars, beatVars>>

\* A listener's synchronizer together with the backend requests it starts.
SinkNext ==
    \/ LoadConfig("listener") /\ UNCHANGED <<relayVars, syncVars, sinkVars, wireVars, beatVars>>
    \/ \E in \in SinkSnapshots, gap \in SinkGaps :
          /\ role = "listener"
          /\ EvaluateSnapshot(in, gap)
          /\ UNCHANGED <<relayVars, supVars, wireVars, beatVars>>
    \/ \E i \in 1..MaxInFlight, outcome \in SinkOutcomes :
          SinkResponds(i, outcome) /\ UNCHANGED <<relayVars, supVars, wireVars, beatVars>>

\* An extension instance started from rest, with the snapshots its content
\* script detects.
SourcePayloads == {PayloadPlaying, PayloadNothing}

SourceNext ==
    \/ \E r \in {"host", "listener"} : LoadConfig(r) /\ UNCHANGED <<relayVars, syncVars, sinkVars, wireVars, beatVars>>
    \/ role # "" /\ AtRest /\ StartConnection /\ UNCHANGED <<relayVars, syncVars, sinkVars, wireVars, beatVars>>
    \/ \E id \in TimerIds : ReconnectTimerFires(id) /\ UNCHANGED <<relayVars, syncVars, sinkVars, wireVars, beatVars>>
    \/ ConnectResumes /\ UNCHANGED <<relayVars, syncVars, sinkVars, wireVars, beatVars>>
    \/ \E t \in Transports : OnOpen(t) /\ UNCHANGED <<relayVars, syncVars, sinkVars, wireVars, beatVars>>
    \/ \E t \in Transports : TransportClosing(t) /\ UNCHANGED <<relayVars, syncVars, sinkVars, wireVars, beatVars>>
    \/ \E t \in Transports : OnSocketClose(t) /\ UNCHANGED <<relayVars, syncVars, sinkVars, wireVars, beatVars>>
    \/ DisconnectWebSocket /\ UNCHANGED <<relayVars, syncVars, sinkVars, wireVars, beatVars>>
    \/ \E p \in SourcePayloads :
          HandleAppleState(p) /\ UNCHANGED <<relayVars, syncVars, sinkVars, wireVars, beatVars>>

\* A configured instance whose connection is dropped and re-established: the
\* user starts it from rest and may stop it, the network opens, refuses or
\* drops each transport.
RecoverNext ==
    \/ \E r \in {"host", "listener"} : LoadConfig(r) /\ UNCHANGED <<relayVars, syncVars, sinkVars, wireVars, beatVars>>
    \/ role # "" /\ AtRest /\ StartConnection /\ UNCHANGED <<relayVars, syncVars, sinkVars, wireVars, beatVars>>
    \/ \E id \in TimerIds : ReconnectTimerFires(id) /\ UNCHANGED <<relayVars, syncVars, sinkVars, wireVars, beatVars>>
    \/ ConnectResumes /\ UNCHANGED <<relayVars, syncVars, sinkVars, wireVars, beatVars>>
    \/ \E t \in Transports : OnOpen(t) /\ UNCHANGED <<relayVars, syncVars, sinkVars, wireVars, beatVars>>
    \/ \E t \in Transports : OnSocketClose(t) /\ UNCHANGED <<relayVars, syncVars, sinkVars, wireVars, beatVars>>
    \/ DisconnectWebSocket /\ UNCHANGED <<relayVars, syncVars, sinkVars, wireVars, beatVars>>

\* The event loop runs every due setTimeout callback and resumes every
\* awaited storage read; a transport does not stay CONNECTING or CLOSING for
\* ever: it opens or its close event is emitted.
TimerRuns(id) == ReconnectTimerFires(id) /\ UNCHANGED <<relayVars, syncVars, sinkVars, wireVars, beatVars>>
AwaitResumes == ConnectResumes /\ UNCHANGED <<relayVars, syncVars, sinkVars, wireVars, beatVars>>
TransportSettles(t) ==
    /\ tState[t] \in {"connecting", "closing"}
    /\ (OnOpen(t) \/ OnSocketClose(t))
    /\ UNCHANGED <<relayVars, syncVars, sinkVars, wireVars, beatVars>>

RecoverFairness ==
    /\ \A id \in TimerIds : WF_vars(TimerRuns(id))
    /\ WF_vars(AwaitResumes)
    /\ \A t \in Transports : WF_vars(TransportSettles(t))

(***************************************************************************)
(* Host: the content script's extractPlaybackState, and the relay fed with *)
(* the snapshots it produces.                                              *)
(***************************************************************************)
\* music.nowPlayingItem; "" stands for a missing or empty string field, 0 for
\* a missing or zero duration (both falsy), present = FALSE for no item.
MediaItem(id, title, artistName, albumName, duration) ==
    [present |-> TRUE, id |-> id, title |-> title, artistName |-> artistName,
     albumName |-> albumName, duration |-> duration]
NoMediaItem ==
    [present |-> FALSE, id |-> "", title |-> "", artistName |-> "", albumName |-> "",
     duration |-> 0]

MusicKit(item, time, state) ==
    [nowPlayingItem |-> item, currentPlaybackTime |-> time, playbackState |-> state]

\* The MusicKit instances the content script reads: nothing loaded, a full
\* item playing, a paused item without an id, a playing item without a title.
MusicKitInputs ==
    {MusicKit(NoMediaItem, 0, 0),
     MusicKit(MediaItem("t1", "Song", "Artist", "Album", 200000), 5, 2),
     MusicKit(MediaItem("", "Song", "Artist", "Album", 200000), 5, 3),
     MusicKit(MediaItem("t1", "", "Artist", "Album", 0), 7, 2)}

mapPlaybackState(state) ==
    CASE state = 2 -> "playing"
      [] state = 3 -> "paused"
      [] state = 4 -> "stopped"
      [] OTHER -> "stopped"

\* x || null for a string field
StrOrNull(x) == IF x = "" THEN JsNull ELSE JsStr(x)

extractPlaybackState(music, now) ==
    LET item == music.nowPlayingItem
    IN IF ~item.present
       THEN Payload("object", JsNull, JsNull, JsNull, JsNull, JsNull,
                    JsNum(music.currentPlaybackTime),
                    JsStr(mapPlaybackState(music.playbackState)), JsNum(now))
       ELSE Payload("object", StrOrNull(item.id), StrOrNull(item.title),
                    StrOrNull(item.artistName), StrOrNull(item.albumName),
                    IF item.duration # 0 THEN JsNum(item.duration \div 1000) ELSE JsNull,
                    JsNum(music.currentPlaybackTime),
                    JsStr(mapPlaybackState(music.playbackState)), JsNum(now))

\* Date.now() of the host when it takes its snapshots.
HostNow == 1000

\* A session of hosts and listeners; each host forwards what its content
\* script extracts (handleAppleState sends the payload as it is).
IntakeNext ==
    \/ \E c \in LiveConns : Connection(c) /\ UNCHANGED <<supVars, syncVars, sinkVars, wireVars, beatVars>>
    \/ \E c \in LiveConns, r \in {"host", "listener"} :
          HandleJoin(c, "s1", r) /\ UNCHANGED <<supVars, syncVars, sinkVars, wireVars, beatVars>>
    \/ \E c \in LiveConns, music \in MusicKitInputs :
          HandleStateUpdate(c, "s1", extractPlaybackState(music, HostNow))
            /\ UNCHANGED <<supVars, syncVars, sinkVars, wireVars, beatVars>>
    \/ \E c \in LiveConns : OnClose(c) /\ UNCHANGED <<supVars, syncVars, sinkVars, wireVars, beatVars>>

(***************************************************************************)
(* Relay: one session with several hosts and listeners, and the stream of  *)
(* STATE_UPDATE writes of each socket.                                     *)
(***************************************************************************)
WireInit ==
    /\ arrivals = 0
    /\ wire = [c \in Conns |-> << >>]

\* What the step that handled the k-th STATE_UPDATE, received from connection
\* c, wrote to socket f with socket.send, in the order of the calls.
Written(f, c, k) ==
    LET w == SelectSeq(sent', LAMBDA e : e.to = f /\ e.msg.type = "STATE_UPDATE")
    IN [i \in 1..Len(w) |-> [from |-> c, seq |-> k, msg |-> w[i].msg]]

\* A STATE_UPDATE for s1 arrives on connection c: handleStateUpdate, and the
\* writes it makes join the streams of their sockets.
SessionStateUpdate(c, payload) ==
    /\ arrivals < MaxUpdates
    /\ HandleStateUpdate(c, "s1", payload)
    /\ arrivals' = arrivals + 1
    /\ wire' = [f \in Conns |-> wire[f] \o Written(f, c, arrivals + 1)]

\* A new socket starts with an empty stream.
SessionConnection(c) ==
    /\ Connection(c)
    /\ wire' = [wire EXCEPT ![c] = << >>]
    /\ UNCHANGED arrivals

\* The close event ends the socket's stream.
SessionClose(c) ==
    /\ OnClose(c)
    /\ wire' = [wire EXCEPT ![c] = << >>]
    /\ UNCHANGED arrivals

SessionNext ==
    \/ \E c \in Conns : SessionConnection(c) /\ UNCHANGED <<supVars, syncVars, sinkVars, beatVars>>
    \/ \E c \in Conns, r \in {"host", "listener"} :
          HandleJoinUpTo(MaxSessionMembers, c, "s1", r)
            /\ UNCHANGED <<supVars, syncVars, sinkVars, wireVars, beatVars>>
    \/ \E c \in Conns, p \in {PayloadPlaying} :
          SessionStateUpdate(c, p) /\ UNCHANGED <<supVars, syncVars, sinkVars, beatVars>>
    \/ \E c \in Conns : PeerClosing(c) /\ UNCHANGED <<supVars, syncVars, sinkVars, wireVars, beatVars>>
    \/ \E c \in Conns : SessionClose(c) /\ UNCHANGED <<supVars, syncVars, sinkVars, beatVars>>

(***************************************************************************)
(* Listener: the snapshots of a host that plays one track without          *)
(* interruption.                                                           *)
(***************************************************************************)
\* The host starts t1 at position 0 when its clock, which agrees with the
\* listener's, shows SteadyStart; currentPlaybackTime then advances with the
\* clock, so a snapshot captured at time ts has positionSec (ts - SteadyStart) / 1000.
SteadyStart == SEEK_THROTTLE_MS

SteadyState(ts) == HostState("t1", "playing", (ts - SteadyStart) \div 1000, ts)

\* Time between two arrivals, and time a snapshot takes from its capture to
\* its evaluation, in ms.
SteadyGaps == {500, 1000}
SteadyAges == {0, 500, 1000}

\* A snapshot of the steady host, captured on a whole second of its
\* position, arrives gap ms after the previous one, age ms after its capture.
ReceiveSteadyUpdate(gap, age) ==
    LET now == syncNow + gap
        ts == now - age
    IN /\ now <= SteadyStart + MaxSteadySec * 1000
       /\ ts >= SteadyStart
       /\ (ts - SteadyStart) % 1000 = 0
       /\ HandleHostStateUpdate(SteadyState(ts), now)

SteadyNext ==
    \/ LoadConfig("listener") /\ UNCHANGED <<relayVars, syncVars, sinkVars, wireVars, beatVars>>
    \/ \E gap \in SteadyGaps, age \in SteadyAges :
          /\ role = "listener"
          /\ ReceiveSteadyUpdate(gap, age)
          /\ UNCHANGED <<relayVars, ws, tState, reconnectAttempts, shouldAutoReconnect,
                         reconnectTimeoutId, heartbeatIntervalId, timers, heartbeats,
                         pendingConnects, role, supSent, supLast, sinkVars, wireVars, beatVars>>

(***************************************************************************)
(* Relay and client: the heartbeat of one connection against the liveness  *)
(* sweep, on a clock of 10 s steps.                                        *)
(***************************************************************************)
BeatTickMs == 10000

\* Time a PING takes from the client's send to the relay's message event: up
\* to 30 s, the limit of the delays below 30 s.
PingDelays == {0, 10000, 20000, 30000}
MaxPingDelay == 30000

BeatInit ==
    /\ nextPingAt = 0
    /\ pingsInFlight = << >>

\* The connection is established: the relay's connection handler runs and the
\* client's onopen starts the heartbeat timer.
BeatConnection(c) ==
    /\ Connection(c)
    /\ nextPingAt' = relayNow + HEARTBEAT_INTERVAL_MS
    /\ UNCHANGED pingsInFlight

\* The client's setInterval callback: ws is open, a PING is sent.
BeatPingSent ==
    /\ nextPingAt # 0
    /\ relayNow >= nextPingAt
    /\ pingsInFlight' = Append(pingsInFlight, relayNow)
    /\ nextPingAt' = nextPingAt + HEARTBEAT_INTERVAL_MS
    /\ UNCHANGED relayVars

\* The oldest PING in flight reaches the relay.
BeatPingReceived(c) ==
    /\ pingsInFlight # << >>
    /\ relayNow - Head(pingsInFlight) \in PingDelays
    /\ HandlePing(c)
    /\ pingsInFlight' = Tail(pingsInFlight)
    /\ UNCHANGED nextPingAt

\* The clock moves on once the timers that are due have run and no PING in
\* flight would exceed its delay.
BeatTick ==
    /\ relayNow < MaxBeatTicks * BeatTickMs
    /\ relayNow - lastSweep < HEARTBEAT_CHECK_INTERVAL_MS
    /\ nextPingAt # 0 => relayNow < nextPingAt
    /\ pingsInFlight # << >> => relayNow - Head(pingsInFlight) < MaxPingDelay
    /\ relayNow' = relayNow + BeatTickMs
    /\ sent' = << >>
    /\ last' = Step("tick", 0, "", "", PayloadNull)
    /\ UNCHANGED <<sessions, lastHeartbeat, clientMeta, connState, lastSweep>>

BeatNext ==
    \/ BeatConnection(1) /\ UNCHANGED <<supVars, syncVars, sinkVars, wireVars>>
    \/ BeatPingSent /\ UNCHANGED <<supVars, syncVars, sinkVars, wireVars>>
    \/ BeatPingReceived(1) /\ UNCHANGED <<supVars, syncVars, sinkVars, wireVars>>
    \/ CheckHeartbeats /\ UNCHANGED <<supVars, syncVars, sinkVars, wireVars, beatVars>>
    \/ BeatTick /\ UNCHANGED <<supVars, syncVars, sinkVars, wireVars, beatVars>>

Init == RelayInit /\ SupInit /\ SyncInit /\ SinkInit /\ WireInit /\ BeatInit

SpecRelay == Init /\ [][RelayNext]_vars

SpecRegistry == Init /\ [][RegistryNext]_vars

SpecLive == Init /\ [][LiveNext]_vars

SpecSup == Init /\ [][SupNext]_vars

\* terminate() destroys the socket, whose close event is then emitted.
CloseAfterTerminate(c) ==
    connState[c] = "terminated" /\ OnClose(c) /\ UNCHANGED <<supVars, syncVars, sinkVars, wireVars, beatVars>>

SpecEvict ==
    Init /\ [][LiveNext]_vars /\ \A c \in LiveConns : WF_vars(CloseAfterTerminate(c))

SpecSync == Init /\ [][SyncNext]_vars

SpecFollower == Init /\ [][FollowerNext]_vars

SpecSink == Init /\ [][SinkNext]_vars

SpecSource == Init /\ [][SourceNext]_vars

SpecRecover == Init /\ [][RecoverNext]_vars /\ RecoverFairness

SpecIntake == Init /\ [][IntakeNext]_vars

SpecSession == Init /\ [][SessionNext]_vars

SpecSteady == Init /\ [][SteadyNext]_vars

SpecBeat == Init /\ [][BeatNext]_vars

(***************************************************************************)
(* Relay: properties.                                                      *)
(***************************************************************************)
IsErrorReply(c) ==
    Len(sent) = 1 /\ sent[1].to = c /\ sent[1].msg.type = "ERROR"

MembersOf(sessionId) ==
    IF sessionId \in DOMAIN sessions THEN Range(sessions[sessionId]) ELSE {}

\* C1: a STATE_UPDATE whose sending connection has no member with role host in
\* the session it names (unjoined, listener there, host elsewhere, or no such
\* session) is answered with exactly one ERROR to the sender, and no
\* STATE_UPDATE is written to any connection.
C1_NonSourceRejected ==
    (/\ last.op = "STATE_UPDATE"
     /\ ~\E m \in MembersOf(last.sessionId) : m.socket = last.conn /\ m.role = "host")
        => IsErrorReply(last.conn)

\* A listener of a session that has another write-ready listener sends a
\* STATE_UPDATE for it and is refused.
C1_Witness ==
    /\ last.op = "STATE_UPDATE"
    /\ IsErrorReply(last.conn)
    /\ \E m \in MembersOf(last.sessionId) : m.socket = last.conn /\ m.role = "listener"
    /\ \E m \in MembersOf(last.sessionId) :
          m.socket # last.conn /\ m.role = "listener" /\ connState[m.socket] = "open"

\* The relay accepted the STATE_UPDATE it handled last: it did not refuse it.
Accepted == last.op = "STATE_UPDATE" /\ ~IsErrorReply(last.conn)

\* C2: an accepted STATE_UPDATE for session S is written once per member of S
\* that has role listener and a write-ready socket, and nothing else is written:
\* every write is that very message, a connection that is not OPEN gets none, and
\* a connection gets as many copies as it has listener members in S (none for a
\* member of another session or for a host member, and no reply to the sender).
C2_BroadcastTargets ==
    Accepted =>
        /\ \A i \in 1..Len(sent) : sent[i].msg = StateUpdateMsg(last.sessionId, last.payload)
        /\ \A c \in Conns :
              Cardinality({i \in 1..Len(sent) : sent[i].to = c})
                = IF connState[c] = "open"
                  THEN Cardinality({m \in MembersOf(last.sessionId) :
                                        m.socket = c /\ m.role = "listener"})
                  ELSE 0

\* A host's update reached exactly one other connection.
C2_Witness ==
    /\ Accepted
    /\ Len(sent) = 1
    /\ sent[1].to # last.conn

\* A host's update was accepted while a listener of the session was not
\* write-ready: nothing was written.
C2_WitnessSkipped ==
    /\ Accepted
    /\ sent = << >>
    /\ \E m \in MembersOf(last.sessionId) : m.role = "listener"

\* C3: a session key is in the registry exactly when it has members: no key maps
\* to an empty member set, in any state, and every member is filed under its
\* own session key.
C3_NoEmptySession ==
    \A k \in DOMAIN sessions :
        /\ sessions[k] # << >>
        /\ \A m \in Range(sessions[k]) : m.sessionId = k

\* The error handler of a joined connection has just removed the last member
\* of its session, and the key is gone.
C3_Witness ==
    /\ last.op = "error"
    /\ clientMeta[last.conn] # NoMeta
    /\ clientMeta[last.conn].sessionId \notin DOMAIN sessions

\* C5: once the close or error event of a connection has been handled, no
\* member of any session has that connection as its socket and the liveness
\* map does not track it.
C5_ClosedConnectionGone ==
    last.op \in {"close", "error"}
        => /\ last.conn \notin DOMAIN lastHeartbeat
           /\ \A m \in RegisteredMetas : m.socket # last.conn

\* C10: after any inbound message is handled, the sender's last-activity
\* timestamp is the time of handling.
C10_EveryMessageTouches ==
    last.op \in {"JOIN", "STATE_UPDATE", "PING", "PONG", "UNKNOWN", "INVALID"}
        => /\ last.conn \in DOMAIN lastHeartbeat
           /\ lastHeartbeat[last.conn] = relayNow

(***************************************************************************)
(* Connection supervisor: properties.                                      *)
(***************************************************************************)
\* C4: after disconnectWebSocket and until the next startConnection (that is,
\* while shouldAutoReconnect is false) no step creates a transport and no step
\* sends a JOIN or a PING.
C4_NoActivityAfterStop ==
    ~shouldAutoReconnect
        => /\ supLast.op # "connect"
           /\ \A i \in 1..Len(supSent) : supSent[i].msg.type \notin {"JOIN", "PING"}

\* The delays of attempts 0..9 as the claim gives them: 1000 * 2^k, uncapped.
BackoffTable ==
    <<1000, 2000, 4000, 8000, 16000, 32000, 64000, 128000, 256000, 512000>>

\* C8: a close handled with reconnection enabled and the attempt counter k
\* below the maximum schedules exactly one new timer, with delay 1000 * 2^k,
\* keeps its id in reconnectTimeoutId, leaves the other timers alone and
\* increments the counter by one.
C8_Backoff ==
    [][(/\ supLast'.op = "onclose"
        /\ shouldAutoReconnect
        /\ reconnectAttempts < MAX_RECONNECT_ATTEMPTS)
          => /\ reconnectAttempts' = reconnectAttempts + 1
             /\ Cardinality(DOMAIN timers' \ DOMAIN timers) = 1
             /\ DOMAIN timers \subseteq DOMAIN timers'
             /\ \A id \in DOMAIN timers : timers'[id] = timers[id]
             /\ reconnectTimeoutId' \in DOMAIN timers' \ DOMAIN timers
             /\ timers'[reconnectTimeoutId'] = BackoffTable[reconnectAttempts + 1]]_vars

\* The fourth consecutive failure (attempt 3) has just been handled: 8000 ms.
C8_Witness ==
    /\ supLast.op = "onclose"
    /\ reconnectAttempts = 4
    /\ reconnectTimeoutId \in DOMAIN timers
    /\ timers[reconnectTimeoutId] = 8000

\* Nothing of the supervisor is in flight: no timer, no suspended connect, no
\* transport.
SupQuiet ==
    /\ DOMAIN timers = {}
    /\ pendingConnects = 0
    /\ \A t \in Transports : tState[t] = "none"

\* C9: a reconnect timer is scheduled only while the attempt counter is below
\* 10 (and reconnection is enabled); the counter never exceeds 10; every open
\* resets it to zero; and once the counter is 10 with nothing in flight, nothing
\* happens until startConnection.
C9_ReconnectCap ==
    [][/\ (DOMAIN timers' \ DOMAIN timers # {})
            => (shouldAutoReconnect /\ reconnectAttempts < MAX_RECONNECT_ATTEMPTS)
       /\ reconnectAttempts' <= MAX_RECONNECT_ATTEMPTS
       /\ (supLast'.op = "onopen") => (reconnectAttempts' = 0)
       /\ (reconnectAttempts = MAX_RECONNECT_ATTEMPTS /\ SupQuiet)
            => (SupQuiet' \/ supLast'.op = "start")]_vars

\* The close after the tenth reconnect has been handled: reconnection is still
\* enabled, the counter is at the cap and no timer was scheduled.
C9_Witness ==
    /\ supLast.op = "onclose"
    /\ shouldAutoReconnect
    /\ reconnectAttempts = MAX_RECONNECT_ATTEMPTS
    /\ SupQuiet

(***************************************************************************)
(* Synchronizer: properties.                                               *)
(***************************************************************************)
\* The step is a call of handleHostStateUpdate by a listener that passes the
\* 200 ms throttle.
EvaluatedStep ==
    /\ syncNow' # syncNow
    /\ role = "listener"
    /\ syncNow' - lastSyncCallTime >= 200

\* The estimate as the claims give it.
ClaimedEstimate(hostState, now) ==
    IF hostState.playbackState = "playing"
    THEN hostState.positionSec * 1000 + (now - hostState.hostTimestampMs)
    ELSE hostState.positionSec * 1000

C6_WitnessSmallDrift ==
    /\ syncAction = NoSinkCall
    /\ lastSyncCallTime = syncNow
    /\ role = "listener"
    /\ hostStateIn.trackId = lastAppliedTrackId
    /\ hostStateIn.playbackState = "playing"
    /\ lastAppliedPositionMs = 50000
    /\ ClaimedEstimate(hostStateIn, syncNow) = 52000

\* Drift 5000 but 500 ms after the last seek: no action.
C6_WitnessCooldown ==
    /\ syncAction = NoSinkCall
    /\ lastSyncCallTime = syncNow
    /\ role = "listener"
    /\ hostStateIn.trackId = lastAppliedTrackId
    /\ hostStateIn.playbackState = "playing"
    /\ Abs(lastAppliedPositionMs - ClaimedEstimate(hostStateIn, syncNow)) = 5000
    /\ syncNow - lastSeekTime = 500

C11_SweepEvictsStaleOnly ==
    [][(last'.op = "sweep")
          => \A c \in DOMAIN lastHeartbeat :
                IF relayNow - lastHeartbeat[c] > 60000
                THEN /\ c \notin DOMAIN lastHeartbeat'
                     /\ connState'[c] = "terminated"
                ELSE /\ c \in DOMAIN lastHeartbeat'
                     /\ lastHeartbeat'[c] = lastHeartbeat[c]
                     /\ connState'[c] = connState[c]]_vars

\* A sweep has just terminated one connection and kept another whose last
\* touch is exactly 60000 ms old.
C11_Witness ==
    /\ last.op = "sweep"
    /\ \E c \in LiveConns : connState[c] = "terminated" /\ c \notin DOMAIN lastHeartbeat
    /\ \E d \in DOMAIN lastHeartbeat :
          relayNow - lastHeartbeat[d] = 60000 /\ connState[d] = "open"

\* C12: a JOIN with an empty or missing sessionId, or with a role that is
\* neither host nor listener, is answered with one ERROR to the sender and
\* leaves the registry as it was; every other JOIN appends exactly one new
\* member (this socket, that session, that role) to that session, leaves the
\* other sessions alone and is answered with JOINED(sessionId, role).
C12_JoinValidation ==
    [][(last'.op = "JOIN")
          => LET c == last'.conn
                 sid == last'.sessionId
                 r == last'.role
                 before == IF sid \in DOMAIN sessions THEN sessions[sid] ELSE << >>
             IN IF sid = "" \/ r \notin {"host", "listener"}
                THEN /\ Len(sent') = 1
                     /\ sent'[1].to = c
                     /\ sent'[1].msg.type = "ERROR"
                     /\ sessions' = sessions
                ELSE /\ sent' = Send(c, JoinedMsg(sid, r))
                     /\ DOMAIN sessions' = DOMAIN sessions \cup {sid}
                     /\ \A k \in DOMAIN sessions : k # sid => sessions'[k] = sessions[k]
                     /\ Len(sessions'[sid]) = Len(before) + 1
                     /\ SubSeq(sessions'[sid], 1, Len(before)) = before
                     /\ LET m == sessions'[sid][Len(before) + 1]
                        IN /\ m.socket = c /\ m.sessionId = sid /\ m.role = r
                           /\ m \notin RegisteredMetas]_vars

\* A JOIN with an unrecognized role has just been refused while the registry
\* holds members.
C12_Witness ==
    /\ last.op = "JOIN"
    /\ last.role = "dj"
    /\ IsErrorReply(last.conn)
    /\ RegisteredMetas # {}

\* A JOIN has just added a second member to a session.
C12_WitnessJoined ==
    /\ last.op = "JOIN"
    /\ sent = Send(last.conn, JoinedMsg(last.sessionId, last.role))
    /\ last.sessionId \in DOMAIN sessions
    /\ Len(sessions[last.sessionId]) = 2

\* A JOIN without a sessionId has just been refused.
C12_WitnessNoSession ==
    /\ last.op = "JOIN"
    /\ last.sessionId = ""
    /\ IsErrorReply(last.conn)

\* C13: every message other than JOIN from a connection that has not joined
\* (its clientMeta is still null) is answered with an ERROR to the sender.
C13_UnjoinedRejected ==
    (/\ last.op \in {"STATE_UPDATE", "PING", "PONG", "UNKNOWN", "INVALID"}
     /\ clientMeta[last.conn] = NoMeta)
        => IsErrorReply(last.conn)

\* C14: the removal done by a close or error handler takes out of the registry
\* at most the connection's own member and touches no other session; when the
\* member is not in the registry (it was removed by the error handler before
\* the close handler ran, or its session is gone) the registry stays exactly
\* as it is.
C14_LeaveIdempotent ==
    [][(last'.op \in {"close", "error"})
          => LET c == last'.conn
                 meta == clientMeta[c]
             IN /\ RegisteredMetas' = RegisteredMetas \ {meta}
                /\ \A k \in DOMAIN sessions :
                      k # meta.sessionId
                        => k \in DOMAIN sessions' /\ sessions'[k] = sessions[k]
                /\ (meta \notin RegisteredMetas) => (sessions' = sessions)
                /\ (last.op = "error" /\ last.conn = c) => (sessions' = sessions)]_vars

\* The close handler has just run removeClient for a member that the error
\* handler had already removed, while the registry holds other members.
C14_Witness ==
    /\ last.op = "close"
    /\ last.leave = "absent"
    /\ RegisteredMetas # {}

\* C18: an unknown message type, an unparseable message, and a STATE_UPDATE
\* of a session's host whose payload has a field of the wrong type are each
\* answered with one ERROR to the sender and nothing else is written; the
\* registry, the sockets' states, the liveness table and the connections'
\* membership stay as they were.
C18_ProtocolErrorKeepsConnection ==
    [][(\/ last'.op \in {"UNKNOWN", "INVALID"}
        \/ /\ last'.op = "STATE_UPDATE"
           /\ last'.payload = PayloadBadPosition
           /\ last'.sessionId \in DOMAIN sessions
           /\ FindSender(sessions[last'.sessionId], last'.conn).role = "host")
          => /\ Len(sent') = 1
             /\ sent'[1].to = last'.conn
             /\ sent'[1].msg.type = "ERROR"
             /\ sessions' = sessions
             /\ connState' = connState
             /\ connState'[last'.conn] = "open"
             /\ lastHeartbeat' = lastHeartbeat
             /\ clientMeta' = clientMeta]_vars

\* A host has just sent a snapshot whose positionSec is a string to a session
\* with a write-ready listener and got an ERROR back; it is still a member.
C18_Witness ==
    /\ last.op = "STATE_UPDATE"
    /\ last.payload = PayloadBadPosition
    /\ IsErrorReply(last.conn)
    /\ connState[last.conn] = "open"
    /\ \E m \in MembersOf(last.sessionId) : m.socket = last.conn /\ m.role = "host"
    /\ FindSender(sessions[last.sessionId], last.conn).role = "host"
    /\ \E m \in MembersOf(last.sessionId) :
          m.socket # last.conn /\ m.role = "listener" /\ connState[m.socket] = "open"

\* A joined connection has just sent a message of an unknown type.
C18_WitnessUnknown ==
    /\ last.op = "UNKNOWN"
    /\ IsErrorReply(last.conn)
    /\ clientMeta[last.conn] \in RegisteredMetas

(***************************************************************************)
(* Synchronizer: estimate, throttle and reset.                             *)
(***************************************************************************)
\* C15: the position an evaluation applies (the target of its playTrack or
\* seek, before clamping at zero, as kept in lastAppliedPositionMs) is
\* positionSec * 1000 + (now - hostTimestampMs) for a playing snapshot and
\* exactly positionSec * 1000 for a paused or stopped one.
C15_Estimate ==
    [][(/\ syncNow' # syncNow
        /\ syncAction'.kind \in {"playTrack", "seek"})
          => LET h == hostStateIn'
                 est == IF h.playbackState = "playing"
                        THEN h.positionSec * 1000 + (syncNow' - h.hostTimestampMs)
                        ELSE h.positionSec * 1000
             IN /\ lastAppliedPositionMs' = est
                /\ syncAction'.positionMs = Max0(est)]_vars

\* playing, positionSec 100, captured 2000 ms before the evaluation: 102000.
C15_Witness ==
    /\ hostStateIn = HostState("t1", "playing", 100, syncNow - 2000)
    /\ syncAction.kind \in {"playTrack", "seek"}
    /\ syncAction.positionMs = 102000
    /\ lastAppliedPositionMs = 102000

\* paused, positionSec 5, captured 100 ms before the evaluation: 5000.
C15_WitnessPaused ==
    /\ hostStateIn = HostState("t2", "paused", 5, syncNow - 100)
    /\ syncAction = SinkCall("playTrack", 5000)
    /\ lastAppliedPositionMs = 5000

\* C16: when onopen sends a JOIN, the five fields of the listener's sync state
\* hold their initial values (nothing but an evaluation writes them, so they
\* then still do when the next snapshot is evaluated).
C16_RejoinResetsSyncState ==
    [][(/\ supLast'.op = "onopen"
        /\ syncNow' = syncNow
        /\ \E i \in 1..Len(supSent') : supSent'[i].msg.type = "JOIN")
          => /\ lastAppliedTrackId' = ""
             /\ lastAppliedPositionMs' = 0
             /\ lastAppliedHostTimestampMs' = 0
             /\ lastSyncCallTime' = 0
             /\ lastSeekTime' = 0]_vars

\* C20: a listener's evaluation less than 200 ms after lastSyncCallTime calls
\* no sink operation and leaves all five sync fields, lastSyncCallTime
\* included, as they were, whatever the snapshot; any other evaluation sets
\* lastSyncCallTime to now, also when it then returns for a null trackId.
C20_Throttle ==
    [][(syncNow' # syncNow /\ role = "listener")
          => IF syncNow' - lastSyncCallTime < 200
             THEN /\ syncAction' = NoSinkCall
                  /\ UNCHANGED <<lastAppliedTrackId, lastAppliedPositionMs,
                                 lastAppliedHostTimestampMs, lastSyncCallTime,
                                 lastSeekTime>>
             ELSE lastSyncCallTime' = syncNow']_vars

\* A snapshot for another track has just been dropped by the throttle, 100 ms
\* after an evaluation.
C20_Witness ==
    /\ role = "listener"
    /\ syncNow - lastSyncCallTime = 100
    /\ hostStateIn.trackId \notin {"", lastAppliedTrackId}
    /\ lastAppliedTrackId # ""
    /\ syncAction = NoSinkCall

\* A snapshot without a track has just been evaluated: only lastSyncCallTime moved.
C20_WitnessNullTrack ==
    /\ role = "listener"
    /\ lastSyncCallTime = syncNow
    /\ hostStateIn.trackId = ""
    /\ syncNow > SEEK_THROTTLE_MS
    /\ syncAction = NoSinkCall

(***************************************************************************)
(* Connection supervisor: timers and transports.                           *)
(***************************************************************************)
\* C17: in every reachable state at most one reconnect timer and at most one
\* heartbeat timer are outstanding.
C17_OneTimerOfEachKind ==
    /\ Cardinality(DOMAIN timers) <= 1
    /\ Cardinality(heartbeats) <= 1

\* C19: in every reachable state at most one transport created by the
\* supervisor is connecting or open.
C19_SingleTransport ==
    Cardinality({t \in Transports : tState[t] \in {"connecting", "open"}}) <= 1

(***************************************************************************)
(* Synchronizer: the branches of an evaluation.                            *)
(***************************************************************************)
\* C21: a non-throttled evaluation of a snapshot whose trackId is non-null and
\* differs from lastAppliedTrackId sends the request startTrack (playTrack)
\* with target max(0, estimate), sets lastAppliedTrackId to the snapshot's
\* track, lastAppliedPositionMs to the estimate and lastAppliedHostTimestampMs
\* to the capture time, and leaves lastSeekTime unchanged; no playTrack or seek
\* request has a negative target.
C21_TrackChangeStarts ==
    [][/\ (/\ EvaluatedStep
           /\ hostStateIn'.trackId # ""
           /\ hostStateIn'.trackId # lastAppliedTrackId)
             => LET est == ClaimedEstimate(hostStateIn', syncNow')
                IN /\ syncAction' = SinkCall("playTrack", IF est > 0 THEN est ELSE 0)
                   /\ lastAppliedTrackId' = hostStateIn'.trackId
                   /\ lastAppliedPositionMs' = est
                   /\ lastAppliedHostTimestampMs' = hostStateIn'.hostTimestampMs
                   /\ UNCHANGED lastSeekTime
       /\ syncAction'.kind \in {"playTrack", "seek"} => syncAction'.positionMs >= 0]_vars

C23_NullTrackIgnored ==
    [][(EvaluatedStep /\ hostStateIn'.trackId = "")
          => /\ syncAction' = NoSinkCall
             /\ lastSyncCallTime' = syncNow'
             /\ UNCHANGED <<lastAppliedTrackId, lastAppliedPositionMs,
                            lastAppliedHostTimestampMs, lastSeekTime>>]_vars

\* A snapshot without a track evaluated right after the evaluation that
\* started t1: t1 is still the applied track.
C23_Witness ==
    /\ role = "listener"
    /\ hostStateIn.trackId = ""
    /\ lastSyncCallTime = syncNow
    /\ syncAction = NoSinkCall
    /\ syncPrev.action.kind = "playTrack"
    /\ syncPrev.hostState.trackId = "t1"
    /\ lastAppliedTrackId = "t1"

\* C24: an evaluation sends at most one request (syncAction, the branches of
\* handleHostStateUpdate excluding each other); one that sends a request comes
\* at least 200 ms after lastSyncCallTime and sets it, and lastSyncCallTime
\* never decreases, so it comes at least 200 ms after every earlier one that
\* sent a request; one that sends seek comes at least 1000 ms after
\* lastSeekTime, the time of the seek before it, and sets it.
C24_RateBound ==
    [][/\ (syncNow' # syncNow /\ syncAction' # NoSinkCall)
             => /\ syncNow' - lastSyncCallTime >= 200
                /\ lastSyncCallTime' = syncNow'
       /\ lastSyncCallTime' >= lastSyncCallTime
       /\ (syncNow' # syncNow /\ syncAction'.kind = "seek")
             => /\ syncNow' - lastSeekTime >= 1000
                /\ lastSeekTime' = syncNow'
       /\ (syncNow' # syncNow /\ syncAction'.kind # "seek")
             => lastSeekTime' = lastSeekTime
       /\ syncNow' >= syncNow]_vars

\* A pause exactly 200 ms after the last one: the evaluation in between, 100 ms
\* after it, was throttled.
C24_Witness ==
    /\ role = "listener"
    /\ syncAction = SinkCall("pause", 0)
    /\ lastSyncCallTime = syncNow
    /\ hostStateIn.trackId = lastAppliedTrackId
    /\ syncPrev.action = NoSinkCall
    /\ syncPrev.hostState.playbackState = "paused"
    /\ syncPrev.hostState.trackId = lastAppliedTrackId

(***************************************************************************)
(* Connection supervisor: joining and forwarding.                          *)
(***************************************************************************)
\* C25: whenever a transport of a configured supervisor opens, the handler
\* sends exactly one message, on that transport: the JOIN with the configured
\* session id and role, with the listenerId for a listener and none for a
\* host; and a heartbeat timer is outstanding afterwards.
C25_JoinOnOpen ==
    [][(supLast'.op = "onopen" /\ tState' # tState /\ role # "")
          => /\ supSent' = <<[on |-> supLast'.t,
                              msg |-> [type |-> "JOIN", sessionId |-> "default-session",
                                       role |-> role,
                                       listenerId |-> IF role = "listener"
                                                      THEN "listener-uuid" ELSE ""]]>>
             /\ heartbeatIntervalId' # 0
             /\ heartbeatIntervalId' \in heartbeats']_vars

\* C26: a locally detected snapshot is written as a STATE_UPDATE, to the
\* current transport and carrying that snapshot, exactly when the role is host
\* and the current transport is open; otherwise nothing is written, and no
\* other step of the supervisor ever writes a STATE_UPDATE.
C26_ForwardIffOpenSource ==
    [][/\ (supLast'.op = "appleState")
             => IF role = "host" /\ ws # 0 /\ tState[ws] = "open"
                THEN supSent' = <<[on |-> ws,
                                   msg |-> [type |-> "STATE_UPDATE",
                                            sessionId |-> "default-session",
                                            payload |-> supLast'.payload]]>>
                ELSE supSent' = << >>
       /\ (supLast'.op # "appleState")
             => \A i \in 1..Len(supSent') : supSent'[i].msg.type # "STATE_UPDATE"]_vars

\* A host forwards the nothing-playing snapshot on its open transport.
C26_Witness ==
    /\ supLast.op = "appleState"
    /\ supLast.payload = PayloadNothing
    /\ role = "host"
    /\ ws # 0
    /\ tState[ws] = "open"
    /\ Len(supSent) = 1
    /\ supSent[1].msg.type = "STATE_UPDATE"

\* A host detects a snapshot while waiting to reconnect: nothing is written.
C26_WitnessDropped ==
    /\ supLast.op = "appleState"
    /\ role = "host"
    /\ ws = 0
    /\ reconnectTimeoutId # 0
    /\ supSent = << >>

\* A listener detects a snapshot on an open transport: nothing is written.
C26_WitnessListener ==
    /\ supLast.op = "appleState"
    /\ role = "listener"
    /\ WsIsOpen
    /\ supSent = << >>

(***************************************************************************)
(* Relay: eviction.                                                        *)
(***************************************************************************)
\* C27: no STATE_UPDATE is written to a connection the sweep has terminated,
\* and once a connection is terminated the registry eventually holds no member
\* of it.
C27_EvictedEventuallyRemoved ==
    /\ [](\A i \in 1..Len(sent) :
             sent[i].msg.type = "STATE_UPDATE" => connState[sent[i].to] # "terminated")
    /\ \A c \in LiveConns :
          (connState[c] = "terminated") ~> (\A m \in RegisteredMetas : m.socket # c)

(***************************************************************************)
(* Connection supervisor: recovery.                                        *)
(***************************************************************************)
\* The close handler found the attempt counter at the cap: ten attempts made,
\* no timer set.
CapExhausted == reconnectAttempts = 10 /\ DOMAIN timers = {}

\* The close event of a transport was just handled with reconnection enabled
\* and the counter below the cap.
DroppedBelowCap == supLast.op = "onclose" /\ shouldAutoReconnect /\ ~CapExhausted

\* The current transport has just opened: the JOIN was written on it and the
\* heartbeat timer is running.
Rejoined ==
    /\ supLast.op = "onopen"
    /\ ws # 0
    /\ tState[ws] = "open"
    /\ supSent = <<[on |-> ws,
                    msg |-> [type |-> "JOIN", sessionId |-> "default-session",
                             role |-> role,
                             listenerId |-> IF role = "listener"
                                            THEN "listener-uuid" ELSE ""]]>>
    /\ heartbeatIntervalId \in heartbeats

NullTrackHasNoMetadata(p) ==
    p.trackId.t = "null"
        => /\ p.title.t = "null"
           /\ p.artist.t = "null"
           /\ p.album.t = "null"
           /\ p.durationSec.t = "null"

\* C29: every snapshot a joined host sends in a STATE_UPDATE, and every snapshot the
\* relay writes to a listener, has title, artist, album and durationSec null
\* when its trackId is null.
C29_SnapshotInvariant ==
    /\ (last.op = "STATE_UPDATE" /\ clientMeta[last.conn].role = "host")
          => NullTrackHasNoMetadata(last.payload)
    /\ \A i \in 1..Len(sent) :
          sent[i].msg.type = "STATE_UPDATE" => NullTrackHasNoMetadata(sent[i].msg.payload)

(***************************************************************************)
(* Synchronizer: failing sink calls.                                       *)
(***************************************************************************)
\* C30: when the response of a playTrack, pause or seek request is handled,
\* whatever its outcome (success, 401, 403, 404, or fetch throwing), the five
\* sync fields stay as the evaluation left them and no request is sent again:
\* the request just leaves the set of those in flight.
C30_SinkFailureHarmless ==
    [][(syncNow' = syncNow /\ role' = role)
          => /\ UNCHANGED <<lastAppliedTrackId, lastAppliedPositionMs,
                            lastAppliedHostTimestampMs, lastSyncCallTime, lastSeekTime>>
             /\ Len(sinkInFlight') = Len(sinkInFlight) - 1
             /\ \A c \in Range(sinkInFlight') : c \in Range(sinkInFlight)]_vars

\* The playTrack request for t1 failed with 403, and a later snapshot was
\* evaluated all the same: it sent a seek.
C30_Witness ==
    /\ sinkLast.call.kind = "playTrack"
    /\ sinkLast.outcome = 403
    /\ sinkLast.at < syncNow
    /\ lastSyncCallTime = syncNow
    /\ lastAppliedTrackId = "t1"
    /\ syncAction.kind = "seek"
    /\ sinkInFlight = <<syncAction>>

(***************************************************************************)
(* Relay: order of the broadcasts.                                         *)
(***************************************************************************)
\* C31: in the stream of writes of every socket, the STATE_UPDATE messages
\* received from one other connection appear in the order in which the relay
\* received them, each at most once.
C31_OrderedOnce ==
    \A f \in Conns :
        \A i, j \in 1..Len(wire[f]) :
            (i < j /\ wire[f][i].from = wire[f][j].from /\ wire[f][i].from # f)
                => wire[f][i].seq < wire[f][j].seq

(***************************************************************************)
(* Relay: heartbeat messages.                                              *)
(***************************************************************************)
\* C32: a PING sets the sender's liveness timestamp to the time of handling
\* and is answered with exactly one PONG, written to the sender; a PONG sets
\* the timestamp and nothing is written; either leaves the registry, the
\* memberships and the other connections' timestamps as they were, whether or
\* not the sender has joined.
C32_PingPong ==
    [][(last'.op \in {"PING", "PONG"})
          => LET c == last'.conn
             IN /\ c \in DOMAIN lastHeartbeat'
                /\ lastHeartbeat'[c] = relayNow
                /\ \A d \in DOMAIN lastHeartbeat' \ {c} :
                      d \in DOMAIN lastHeartbeat /\ lastHeartbeat'[d] = lastHeartbeat[d]
                /\ DOMAIN lastHeartbeat \subseteq DOMAIN lastHeartbeat'
                /\ sent' = IF last'.op = "PING"
                           THEN <<[to |-> c, msg |-> [type |-> "PONG"]]>>
                           ELSE << >>
                /\ sessions' = sessions
                /\ clientMeta' = clientMeta
                /\ connState' = connState]_vars

\* A connection that never joined sends a PING 30 s after it connected, while
\* another connection is a member: its timestamp moves and it gets the PONG.
C32_Witness ==
    /\ last.op = "PING"
    /\ clientMeta[last.conn] = NoMeta
    /\ relayNow = 30000
    /\ lastHeartbeat[last.conn] = relayNow
    /\ sent = <<[to |-> last.conn, msg |-> [type |-> "PONG"]]>>
    /\ RegisteredMetas # {}

\* A member of a session sends a PONG after the clock has moved: nothing is
\* written.
C32_WitnessPong ==
    /\ last.op = "PONG"
    /\ clientMeta[last.conn] \in RegisteredMetas
    /\ relayNow > 0
    /\ lastHeartbeat[last.conn] = relayNow
    /\ sent = << >>

(***************************************************************************)
(* Relay: several hosts in one session.                                    *)
(***************************************************************************)
\* C33: a JOIN as host or listener is answered with JOINED and adds a member
\* whatever members the session already has (a second host included), and a
\* valid STATE_UPDATE from a connection that has a member with role host in
\* the session is written to the socket of every listener member of the
\* session whose socket is write-ready.
C33_ManySources ==
    [][/\ (last'.op = "JOIN" /\ last'.role \in {"host", "listener"})
             => /\ sent' = <<[to |-> last'.conn,
                              msg |-> [type |-> "JOINED", sessionId |-> last'.sessionId,
                                       role |-> last'.role]]>>
                /\ last'.sessionId \in DOMAIN sessions'
                /\ Cardinality(Range(sessions'[last'.sessionId]))
                     = Cardinality(MembersOf(last'.sessionId)) + 1
       /\ (/\ last'.op = "STATE_UPDATE"
           /\ last'.payload = PayloadPlaying
           /\ \E m \in MembersOf(last'.sessionId) :
                 m.socket = last'.conn /\ m.role = "host")
             => \A m \in MembersOf(last'.sessionId) :
                   (m.role = "listener" /\ connState[m.socket] = "open")
                     => \E i \in 1..Len(sent') :
                           sent'[i] = [to |-> m.socket,
                                       msg |-> [type |-> "STATE_UPDATE",
                                                sessionId |-> last'.sessionId,
                                                payload |-> last'.payload]]]_vars

(***************************************************************************)
(* Synchronizer: steady playback, resume and final pause.                  *)
(***************************************************************************)
\* C34: while the host plays one track from its start without interruption
\* and with a clock that agrees with the listener's, no evaluation of its
\* snapshots sends a seek.
C34_NoSeekWhenSteady ==
    [][(syncNow' # syncNow) => syncAction'.kind # "seek"]_vars

\* C35: when a non-throttled evaluation of a paused snapshot has sent pause
\* and the next evaluation, not throttled either, is of a playing snapshot of
\* the same track, that evaluation sends a request other than pause (of the
\* requests there are, only playTrack starts the player and seek moves it).
C35_ResumeAfterPause ==
    [][(/\ EvaluatedStep
        /\ lastSyncCallTime = syncNow
        /\ syncAction = SinkCall("pause", 0)
        /\ hostStateIn.playbackState = "paused"
        /\ hostStateIn'.trackId = hostStateIn.trackId
        /\ hostStateIn'.playbackState = "playing")
          => syncAction'.kind \in {"playTrack", "seek"}]_vars

\* C36: whenever a listener is handed a paused snapshot of the track of
\* lastAppliedTrackId, the evaluation sends pause (any snapshot may be the
\* last one the listener is handed, so one that gets no pause leaves the
\* listener playing).
C36_FinalPauseApplied ==
    [][(/\ syncNow' # syncNow
        /\ role = "listener"
        /\ hostStateIn'.trackId # ""
        /\ hostStateIn'.trackId = lastAppliedTrackId
        /\ hostStateIn'.playbackState = "paused")
          => syncAction' = SinkCall("pause", 0)]_vars

\* C37: an evaluation sends playTrack only for a snapshot whose playbackState
\* is playing.
C37_StartOnlyWhenPlaying ==
    syncAction.kind = "playTrack" => hostStateIn.playbackState = "playing"

(***************************************************************************)
(* Relay: members of a connection.                                         *)
(***************************************************************************)
\* C38: in every reachable state no two members of the registry, of one
\* session or of two, have the same socket.
C38_OneMemberPerConnection ==
    \A m1, m2 \in RegisteredMetas : m1.socket = m2.socket => m1 = m2

(***************************************************************************)
(* Connection supervisor: close of a replaced transport.                   *)
(***************************************************************************)
\* C39: the close event of a transport other than the current one (the
\* supervisor holds another transport in ws) leaves ws, the heartbeat timer,
\* the reconnect timers and the attempt counter as they were.
C39_StaleCloseIgnored ==
    [][(supLast'.op = "onclose" /\ tState' # tState /\ ws # 0 /\ supLast'.t # ws)
          => /\ ws' = ws
             /\ heartbeatIntervalId' = heartbeatIntervalId
             /\ heartbeats' = heartbeats
             /\ timers' = timers
             /\ reconnectTimeoutId' = reconnectTimeoutId
             /\ reconnectAttempts' = reconnectAttempts]_vars

====
